---- MODULE Spec2Model ----
(***************************************************************************)
(* A model of src/thread.ts: the Thread class of the debugger, which       *)
(* tracks the pause state of one execution context, the scripts parsed in  *)
(* it and their source maps.  The Target (protocol client, document URL)   *)
(* and the SourceContainer (shared registry of Sources) are collaborators; *)
(* they are modelled by the calls Thread makes on them.                     *)
(*                                                                         *)
(* JavaScript runs every handler to completion, so each synchronous        *)
(* stretch of code (a method, an event handler, the part of initialize()   *)
(* between two awaits) is one action.                                       *)
(***************************************************************************)
EXTENDS Integers, Sequences, FiniteSets, TLC

VARIABLES
  lastThreadId,   \* Thread._lastThreadId (static)
  threadId,       \* Thread._threadId, one per constructed Thread
  threadName,     \* Thread._threadName
  pausedDetails,  \* Thread._pausedDetails
  scripts,        \* Thread._scripts: script id -> Source handle
  pc,             \* where each Thread's initialize() stands
  handlers,       \* the protocol events each Thread's cdp has a listener for
  activated,      \* the domains whose enable command each Thread has issued
  disposed,       \* whether dispose() was called on the Thread
  targetUrl,      \* Target.url() of the Thread's target
  sources,        \* every Source created so far; a handle is its index
  registry,       \* SourceContainer: the handles added and not yet removed
  added,          \* per Thread: the handles it passed to addSource since its last reset
  missed,         \* an activated domain emitted an event nobody listened for
  lastOp,         \* the operation or event handled by the last step
  out             \* the calls the last step made on its collaborators, in order

vars == <<lastThreadId, threadId, threadName, pausedDetails, scripts, pc, handlers,
          activated, disposed, targetUrl, sources, registry, added, missed, lastOp, out>>

(***************************************************************************)
(* Bounds and input sets.                                                   *)
(***************************************************************************)
MaxThreads == 2
MaxSources == 2

ScriptIds == {"7", "8"}
PauseReasons == {"breakpoint", "step"}
ThreadNames == {"main"}

Threads == 1..Len(threadId)

(***************************************************************************)
(* JavaScript values.                                                       *)
(***************************************************************************)
\* The values of _pausedDetails: undefined, null, or a PausedEvent object.
JsUndefined == [kind |-> "undefined", reason |-> ""]
JsNull == [kind |-> "null", reason |-> ""]
PausedEvent(reason) == [kind |-> "object", reason |-> reason]

\* pausedDetails() holds no pause payload.
Absent(p) == p.kind # "object"

\* A string that holds a URL reference, kept in parsed form: an origin ("" when the
\* reference is relative), whether the path starts at the root, and the path segments.
Url(origin, rooted, segs) == [def |-> TRUE, origin |-> origin, rooted |-> rooted, segs |-> segs]
EmptyString == Url("", FALSE, <<>>)
NoUrl == [def |-> FALSE, origin |-> "", rooted |-> FALSE, segs |-> <<>>]

RECURSIVE JoinPath(_)
JoinPath(segs) ==
  IF segs = <<>> THEN ""
  ELSE IF Len(segs) = 1 THEN segs[1]
  ELSE segs[1] \o "/" \o JoinPath(Tail(segs))

\* The characters of a URL string.
Text(u) == u.origin \o (IF u.rooted THEN "/" ELSE "") \o JoinPath(u.segs)

\* JavaScript truthiness of a string-or-undefined value.
Truthy(u) == u.def /\ Text(u) # ""

DropLast(s) == IF s = <<>> THEN s ELSE SubSeq(s, 1, Len(s) - 1)

\* utils.completeUrl(base, relative): the absolute URL of `relative` taken against
\* `base`, or undefined when there is no absolute base to take it against.
completeUrl(base, relative) ==
  IF relative.origin # "" THEN Url(relative.origin, TRUE, relative.segs)
  ELSE IF ~base.def \/ base.origin = "" THEN NoUrl
  ELSE IF relative.rooted THEN Url(base.origin, TRUE, relative.segs)
  ELSE IF relative.segs = <<>> THEN Url(base.origin, TRUE, base.segs)
  ELSE Url(base.origin, TRUE, DropLast(base.segs) \o relative.segs)

DocumentUrls == {EmptyString, Url("https://x", TRUE, <<"index.html">>)}
ScriptUrls == {EmptyString, Url("", TRUE, <<"app.js">>)}
SourceMapUrls == {EmptyString, Url("", FALSE, <<"app.js.map">>), Url("https://m", TRUE, <<"a.map">>)}

\* Protocol.Debugger.ScriptParsedEvent
ScriptParsedEvents == [scriptId : ScriptIds, url : ScriptUrls, sourceMapURL : SourceMapUrls]

\* Scripts with no URL and no source map.
PlainScriptParsedEvents == [scriptId : ScriptIds, url : {EmptyString}, sourceMapURL : {EmptyString}]

(***************************************************************************)
(* Maps and the record of calls.                                            *)
(***************************************************************************)
EmptyMap == [k \in {} |-> 0]
MapSet(m, k, v) == [x \in (DOMAIN m) \cup {k} |-> IF x = k THEN v ELSE m[x]]
Values(m) == {m[k] : k \in DOMAIN m}

\* One call made by Thread t on a collaborator (or on its own observers): the
\* operation, the Source handles and the string it carries, and what name() and
\* pausedState() answer at the moment of the call.
Call(op, t, srcs, val, name, paused) ==
  [op |-> op, t |-> t, srcs |-> srcs, val |-> val, name |-> name, paused |-> paused]

\* What the last step was: the operation or protocol event, the Thread, and the input.
NoEvent == [scriptId |-> "", url |-> NoUrl, sourceMapURL |-> NoUrl]
Op(op, t, val, event) == [op |-> op, t |-> t, val |-> val, event |-> event]

Calls(op) == {i \in 1..Len(out) : out[i].op = op}

(***************************************************************************)
(* The state after construction.                                            *)
(***************************************************************************)
\* No Thread constructed yet.
InitThreads ==
  /\ lastThreadId = 0
  /\ threadId = <<>>
  /\ threadName = <<>>
  /\ pausedDetails = <<>>
  /\ scripts = <<>>
  /\ pc = <<>>
  /\ handlers = <<>>
  /\ activated = <<>>
  /\ disposed = <<>>
  /\ targetUrl = <<>>
  /\ sources = <<>>
  /\ registry = {}
  /\ added = <<>>
  /\ missed = FALSE
  /\ lastOp = Op("none", 0, "", NoEvent)
  /\ out = <<>>

\* A constructor that takes the counter without advancing it.
constructorWithoutIncrement(url) ==
  /\ Len(threadId) < MaxThreads
  /\ lastThreadId' = lastThreadId
  /\ threadId' = Append(threadId, lastThreadId')
  /\ threadName' = Append(threadName, "")
  /\ pausedDetails' = Append(pausedDetails, JsUndefined)
  /\ scripts' = Append(scripts, EmptyMap)
  /\ pc' = Append(pc, "new")
  /\ handlers' = Append(handlers, {})
  /\ activated' = Append(activated, {})
  /\ disposed' = Append(disposed, FALSE)
  /\ targetUrl' = Append(targetUrl, url)
  /\ added' = Append(added, {})
  /\ lastOp' = Op("constructor", Len(threadId) + 1, "", NoEvent)
  /\ out' = <<>>
  /\ UNCHANGED <<sources, registry, missed>>

\* new Thread(target)
constructor(url) ==
  /\ Len(threadId) < MaxThreads
  /\ lastThreadId' = lastThreadId + 1
  /\ threadId' = Append(threadId, lastThreadId')
  /\ threadName' = Append(threadName, "")
  /\ pausedDetails' = Append(pausedDetails, JsUndefined)
  /\ scripts' = Append(scripts, EmptyMap)
  /\ pc' = Append(pc, "new")
  /\ handlers' = Append(handlers, {})
  /\ activated' = Append(activated, {})
  /\ disposed' = Append(disposed, FALSE)
  /\ targetUrl' = Append(targetUrl, url)
  /\ added' = Append(added, {})
  /\ lastOp' = Op("constructor", Len(threadId) + 1, "", NoEvent)
  /\ out' = <<>>
  /\ UNCHANGED <<sources, registry, missed>>

\* One Thread, as its Target has just constructed it.
Init ==
  /\ lastThreadId = 1
  /\ threadId = <<1>>
  /\ threadName = <<"">>
  /\ pausedDetails = <<JsUndefined>>
  /\ scripts = <<EmptyMap>>
  /\ pc = <<"new">>
  /\ handlers = <<{}>>
  /\ activated = <<{}>>
  /\ disposed = <<FALSE>>
  /\ targetUrl \in {<<u>> : u \in DocumentUrls}
  /\ sources = <<>>
  /\ registry = {}
  /\ added = <<{}>>
  /\ missed = FALSE
  /\ lastOp = Op("constructor", 1, "", NoEvent)
  /\ out = <<>>

(***************************************************************************)
(* Methods.                                                                 *)
(***************************************************************************)
\* A resume() that also clears the paused state itself.
resumeClearsPausedDetails(t) ==
  /\ pausedDetails' = [pausedDetails EXCEPT ![t] = JsNull]
  /\ out' = <<Call("command", t, {}, "Debugger.resume", threadName[t], pausedDetails'[t])>>
  /\ lastOp' = Op("resume", t, "", NoEvent)
  /\ UNCHANGED <<lastThreadId, threadId, threadName, scripts, pc, handlers,
                 activated, disposed, targetUrl, sources, registry, added, missed>>

\* resume()
resume(t) ==
  /\ out' = <<Call("command", t, {}, "Debugger.resume", threadName[t], pausedDetails[t])>>
  /\ lastOp' = Op("resume", t, "", NoEvent)
  /\ UNCHANGED <<lastThreadId, threadId, threadName, pausedDetails, scripts, pc, handlers,
                 activated, disposed, targetUrl, sources, registry, added, missed>>

\* A setThreadName() that notifies before it stores the name.
setThreadNameNotifiesFirst(t, name) ==
  /\ threadName' = [threadName EXCEPT ![t] = name]
  /\ out' = <<Call("emit", t, {}, "ThreadNameChanged", threadName[t], pausedDetails[t])>>
  /\ lastOp' = Op("setThreadName", t, name, NoEvent)
  /\ UNCHANGED <<lastThreadId, threadId, pausedDetails, scripts, pc, handlers,
                 activated, disposed, targetUrl, sources, registry, added, missed>>

\* setThreadName(threadName)
setThreadName(t, name) ==
  /\ threadName' = [threadName EXCEPT ![t] = name]
  /\ out' = <<Call("emit", t, {}, "ThreadNameChanged", threadName'[t], pausedDetails[t])>>
  /\ lastOp' = Op("setThreadName", t, name, NoEvent)
  /\ UNCHANGED <<lastThreadId, threadId, pausedDetails, scripts, pc, handlers,
                 activated, disposed, targetUrl, sources, registry, added, missed>>

\* A _reset() that takes its snapshot after it cleared the map.
resetClearsFirst(t) ==
  /\ scripts' = [scripts EXCEPT ![t] = EmptyMap]
  /\ registry' = registry \ Values(scripts'[t])
  /\ added' = [added EXCEPT ![t] = {}]
  /\ out' = <<Call("removeSources", t, Values(scripts'[t]), "", threadName[t], pausedDetails[t])>>

\* A _reset() that hands the Sources to the registry and keeps them in the map.
resetWithoutClear(t) ==
  LET snapshot == Values(scripts[t]) IN
  /\ scripts' = scripts
  /\ registry' = registry \ snapshot
  /\ added' = [added EXCEPT ![t] = {}]
  /\ out' = <<Call("removeSources", t, snapshot, "", threadName[t], pausedDetails[t])>>

\* A _reset() that asks the registry to remove every Source it holds.
resetRemovesEverySource(t) ==
  /\ scripts' = [scripts EXCEPT ![t] = EmptyMap]
  /\ registry' = {}
  /\ added' = [added EXCEPT ![t] = {}]
  /\ out' = <<Call("removeSources", t, registry, "", threadName[t], pausedDetails[t])>>

\* _reset()
reset(t) ==
  LET snapshot == Values(scripts[t]) IN
  /\ scripts' = [scripts EXCEPT ![t] = EmptyMap]
  /\ registry' = registry \ snapshot
  /\ added' = [added EXCEPT ![t] = {}]
  /\ out' = <<Call("removeSources", t, snapshot, "", threadName[t], pausedDetails[t])>>

\* A dispose() that does not reset.
disposeWithoutReset(t) ==
  /\ disposed' = [disposed EXCEPT ![t] = TRUE]
  /\ out' = <<>>
  /\ lastOp' = Op("dispose", t, "", NoEvent)
  /\ UNCHANGED <<lastThreadId, threadId, threadName, pausedDetails, scripts, pc, handlers,
                 activated, targetUrl, sources, registry, added, missed>>

\* dispose()
dispose(t) ==
  /\ reset(t)
  /\ disposed' = [disposed EXCEPT ![t] = TRUE]
  /\ lastOp' = Op("dispose", t, "", NoEvent)
  /\ UNCHANGED <<lastThreadId, threadId, threadName, pausedDetails, pc, handlers,
                 activated, targetUrl, sources, missed>>

\* An initialize() that issues Runtime.enable before it subscribes to the domain.
initializeActivateFirst(t) ==
  /\ pc[t] = "new"
  /\ activated' = [activated EXCEPT ![t] = @ \cup {"Runtime"}]
  /\ pc' = [pc EXCEPT ![t] = "awaitRuntime"]
  /\ out' = <<Call("command", t, {}, "Runtime.enable", threadName[t], pausedDetails[t])>>
  /\ lastOp' = Op("initialize", t, "", NoEvent)
  /\ UNCHANGED <<lastThreadId, threadId, threadName, pausedDetails, scripts, handlers,
                 disposed, targetUrl, sources, registry, added, missed>>

\* initialize(), up to its first await
initialize(t) ==
  /\ pc[t] = "new"
  /\ handlers' = [handlers EXCEPT ![t] = @ \cup {"executionContextsCleared"}]
  /\ activated' = [activated EXCEPT ![t] = @ \cup {"Runtime"}]
  /\ pc' = [pc EXCEPT ![t] = "awaitRuntime"]
  /\ out' = << Call("on", t, {}, "executionContextsCleared", threadName[t], pausedDetails[t]),
               Call("command", t, {}, "Runtime.enable", threadName[t], pausedDetails[t]) >>
  /\ lastOp' = Op("initialize", t, "", NoEvent)
  /\ UNCHANGED <<lastThreadId, threadId, threadName, pausedDetails, scripts,
                 disposed, targetUrl, sources, registry, added, missed>>

\* initialize(), from the acknowledgement of Runtime.enable to its second await
initializeRuntimeEnabled(t) ==
  /\ pc[t] = "awaitRuntime"
  /\ handlers' = [handlers EXCEPT ![t] = @ \cup {"paused", "resumed", "scriptParsed"}]
  /\ activated' = [activated EXCEPT ![t] = @ \cup {"Debugger"}]
  /\ pc' = [pc EXCEPT ![t] = "awaitDebugger"]
  /\ out' = << Call("on", t, {}, "paused", threadName[t], pausedDetails[t]),
               Call("on", t, {}, "resumed", threadName[t], pausedDetails[t]),
               Call("on", t, {}, "scriptParsed", threadName[t], pausedDetails[t]),
               Call("command", t, {}, "Debugger.enable", threadName[t], pausedDetails[t]) >>
  /\ lastOp' = Op("initializeRuntimeEnabled", t, "", NoEvent)
  /\ UNCHANGED <<lastThreadId, threadId, threadName, pausedDetails, scripts,
                 disposed, targetUrl, sources, registry, added, missed>>

\* initialize(), from the acknowledgement of Debugger.enable to its return
initializeDebuggerEnabled(t) ==
  /\ pc[t] = "awaitDebugger"
  /\ pc' = [pc EXCEPT ![t] = "done"]
  /\ out' = <<>>
  /\ lastOp' = Op("initializeDebuggerEnabled", t, "", NoEvent)
  /\ UNCHANGED <<lastThreadId, threadId, threadName, pausedDetails, scripts, handlers,
                 activated, disposed, targetUrl, sources, registry, added, missed>>

\* An initialize() that catches the failure of an activation and carries on.
initializeFailureSwallowed(t) ==
  /\ pc[t] \in {"awaitRuntime", "awaitDebugger"}
  /\ pc' = [pc EXCEPT ![t] = IF @ = "awaitRuntime" THEN "awaitDebugger" ELSE "done"]
  /\ handlers' = [handlers EXCEPT ![t] =
                    IF pc[t] = "awaitRuntime" THEN @ \cup {"paused", "resumed", "scriptParsed"} ELSE @]
  /\ activated' = [activated EXCEPT ![t] = IF pc[t] = "awaitRuntime" THEN @ \cup {"Debugger"} ELSE @]
  /\ out' = IF pc[t] = "awaitRuntime"
            THEN << Call("on", t, {}, "paused", threadName[t], pausedDetails[t]),
                    Call("on", t, {}, "resumed", threadName[t], pausedDetails[t]),
                    Call("on", t, {}, "scriptParsed", threadName[t], pausedDetails[t]),
                    Call("command", t, {}, "Debugger.enable", threadName[t], pausedDetails[t]) >>
            ELSE <<>>
  /\ lastOp' = Op("initializeFailed", t, pc[t], NoEvent)
  /\ UNCHANGED <<lastThreadId, threadId, threadName, pausedDetails, scripts,
                 disposed, targetUrl, sources, registry, added, missed>>

\* initialize(), when the command it awaits fails: the await throws and the
\* promise initialize() returned is rejected.
initializeFailed(t) ==
  /\ pc[t] \in {"awaitRuntime", "awaitDebugger"}
  /\ pc' = [pc EXCEPT ![t] = "failed"]
  /\ out' = <<>>
  /\ lastOp' = Op("initializeFailed", t, pc[t], NoEvent)
  /\ UNCHANGED <<lastThreadId, threadId, threadName, pausedDetails, scripts, handlers,
                 activated, disposed, targetUrl, sources, registry, added, missed>>

(***************************************************************************)
(* Protocol events.  A domain emits events once its enable command has been *)
(* issued; the Target routes them to the listeners of a Thread it has not   *)
(* disposed.                                                                *)
(***************************************************************************)
\* The Target routes events to Thread t.
Routed(t) == ~disposed[t]

\* The event reaches a listener of Thread t.
Handled(t, event) == Routed(t) /\ event \in handlers[t]

\* The event reaches no listener: the Target routes none to a disposed Thread, and
\* an event with no listener registered for it is lost.
Unhandled(t, event) ==
  /\ missed' = (missed \/ Routed(t))
  /\ lastOp' = Op(IF Routed(t) THEN "missed" ELSE "unrouted", t, event, NoEvent)
  /\ out' = <<>>
  /\ UNCHANGED <<lastThreadId, threadId, threadName, pausedDetails, scripts, pc, handlers,
                 activated, disposed, targetUrl, sources, registry, added>>

\* A listener of 'executionContextsCleared' that empties the local map only.
onExecutionContextsClearedMapOnly(t) ==
  /\ scripts' = [scripts EXCEPT ![t] = EmptyMap]
  /\ added' = [added EXCEPT ![t] = {}]
  /\ out' = <<>>
  /\ lastOp' = Op("executionContextsCleared", t, "", NoEvent)
  /\ UNCHANGED <<lastThreadId, threadId, threadName, pausedDetails, pc, handlers,
                 activated, disposed, targetUrl, sources, registry, missed>>

\* The listener of 'executionContextsCleared': () => this._reset()
onExecutionContextsCleared(t) ==
  /\ reset(t)
  /\ lastOp' = Op("executionContextsCleared", t, "", NoEvent)
  /\ UNCHANGED <<lastThreadId, threadId, threadName, pausedDetails, pc, handlers,
                 activated, disposed, targetUrl, sources, missed>>

\* A listener of 'paused' that notifies without storing the payload.
onPausedNotStored(t, event) ==
  /\ out' = <<Call("emit", t, {}, "ThreadPaused", threadName[t], pausedDetails[t])>>
  /\ lastOp' = Op("paused", t, event.reason, NoEvent)
  /\ UNCHANGED <<lastThreadId, threadId, threadName, pausedDetails, scripts, pc, handlers,
                 activated, disposed, targetUrl, sources, registry, added, missed>>

\* The listener of 'paused'
onPaused(t, event) ==
  /\ pausedDetails' = [pausedDetails EXCEPT ![t] = event]
  /\ out' = <<Call("emit", t, {}, "ThreadPaused", threadName[t], pausedDetails'[t])>>
  /\ lastOp' = Op("paused", t, event.reason, NoEvent)
  /\ UNCHANGED <<lastThreadId, threadId, threadName, scripts, pc, handlers,
                 activated, disposed, targetUrl, sources, registry, added, missed>>

\* A listener of 'resumed' that notifies before it clears the paused state.
onResumedNotifiesFirst(t) ==
  /\ pausedDetails' = [pausedDetails EXCEPT ![t] = JsNull]
  /\ out' = <<Call("emit", t, {}, "ThreadResumed", threadName[t], pausedDetails[t])>>
  /\ lastOp' = Op("resumed", t, "", NoEvent)
  /\ UNCHANGED <<lastThreadId, threadId, threadName, scripts, pc, handlers,
                 activated, disposed, targetUrl, sources, registry, added, missed>>

\* A listener of 'resumed' that clears the paused state and notifies nobody.
onResumedWithoutNotification(t) ==
  /\ pausedDetails' = [pausedDetails EXCEPT ![t] = JsNull]
  /\ out' = <<>>
  /\ lastOp' = Op("resumed", t, "", NoEvent)
  /\ UNCHANGED <<lastThreadId, threadId, threadName, scripts, pc, handlers,
                 activated, disposed, targetUrl, sources, registry, added, missed>>

\* The listener of 'resumed'
onResumed(t) ==
  /\ pausedDetails' = [pausedDetails EXCEPT ![t] = JsNull]
  /\ out' = <<Call("emit", t, {}, "ThreadResumed", threadName[t], pausedDetails'[t])>>
  /\ lastOp' = Op("resumed", t, "", NoEvent)
  /\ UNCHANGED <<lastThreadId, threadId, threadName, scripts, pc, handlers,
                 activated, disposed, targetUrl, sources, registry, added, missed>>

\* An identifier with no fallback for a script without URL.
readableUrlWithoutFallback(event) == Text(event.url)

\* The identifier of the Source of a script: its URL, or VM<script id>.
readableUrl(event) ==
  IF Truthy(event.url) THEN Text(event.url) ELSE "VM" \o event.scriptId

\* A resolution that does not test the resolved script URL before it uses it.
resolvedSourceMapUrlUnguarded(documentUrl, event) ==
  IF Truthy(event.sourceMapURL)
  THEN completeUrl(completeUrl(documentUrl, event.url), event.sourceMapURL)
  ELSE NoUrl

\* A resolution against the URL of the script alone, without the document URL.
resolvedSourceMapUrlWithoutDocument(documentUrl, event) ==
  IF Truthy(event.sourceMapURL)
  THEN completeUrl(event.url, event.sourceMapURL)
  ELSE NoUrl

\* The URL of the script's source map, or a falsy value when there is none to attach.
resolvedSourceMapUrl(documentUrl, event) ==
  IF Truthy(event.sourceMapURL)
  THEN LET resolvedSourceUrl == completeUrl(documentUrl, event.url) IN
       IF Truthy(resolvedSourceUrl)
       THEN completeUrl(resolvedSourceUrl, event.sourceMapURL)
       ELSE resolvedSourceUrl
  ELSE NoUrl

\* An _onScriptParsed that fetches the script source when it creates the Source.
onScriptParsedFetchesEagerly(t, event) ==
  LET source == Len(sources) + 1
      mapUrl == resolvedSourceMapUrl(targetUrl[t], event)
  IN
  /\ sources' = Append(sources, [url |-> readableUrl(event), scriptId |-> event.scriptId, thread |-> t])
  /\ scripts' = [scripts EXCEPT ![t] = MapSet(@, event.scriptId, source)]
  /\ registry' = registry \cup {source}
  /\ added' = [added EXCEPT ![t] = @ \cup {source}]
  /\ out' = << Call("command", t, {source}, "Debugger.getScriptSource:" \o event.scriptId,
                    threadName[t], pausedDetails[t]),
               Call("addSource", t, {source}, readableUrl(event), threadName[t], pausedDetails[t]) >>
            \o IF Truthy(mapUrl)
               THEN <<Call("attachSourceMap", t, {source}, Text(mapUrl), threadName[t], pausedDetails[t])>>
               ELSE <<>>
  /\ lastOp' = Op("scriptParsed", t, "", event)
  /\ UNCHANGED <<lastThreadId, threadId, threadName, pausedDetails, pc, handlers,
                 activated, disposed, targetUrl, missed>>

\* An _onScriptParsed that keeps the Source in the local map only.
onScriptParsedWithoutAddSource(t, event) ==
  LET source == Len(sources) + 1
      mapUrl == resolvedSourceMapUrl(targetUrl[t], event)
  IN
  /\ sources' = Append(sources, [url |-> readableUrl(event), scriptId |-> event.scriptId, thread |-> t])
  /\ scripts' = [scripts EXCEPT ![t] = MapSet(@, event.scriptId, source)]
  /\ out' = IF Truthy(mapUrl)
            THEN <<Call("attachSourceMap", t, {source}, Text(mapUrl), threadName[t], pausedDetails[t])>>
            ELSE <<>>
  /\ lastOp' = Op("scriptParsed", t, "", event)
  /\ UNCHANGED <<lastThreadId, threadId, threadName, pausedDetails, pc, handlers,
                 activated, disposed, targetUrl, registry, added, missed>>

\* _onScriptParsed(event), the listener of 'scriptParsed'
onScriptParsed(t, event) ==
  LET source == Len(sources) + 1
      mapUrl == resolvedSourceMapUrl(targetUrl[t], event)
  IN
  /\ sources' = Append(sources, [url |-> readableUrl(event), scriptId |-> event.scriptId, thread |-> t])
  /\ scripts' = [scripts EXCEPT ![t] = MapSet(@, event.scriptId, source)]
  /\ registry' = registry \cup {source}
  /\ added' = [added EXCEPT ![t] = @ \cup {source}]
  /\ out' = <<Call("addSource", t, {source}, readableUrl(event), threadName[t], pausedDetails[t])>>
            \o IF Truthy(mapUrl)
               THEN <<Call("attachSourceMap", t, {source}, Text(mapUrl), threadName[t], pausedDetails[t])>>
               ELSE <<>>
  /\ lastOp' = Op("scriptParsed", t, "", event)
  /\ UNCHANGED <<lastThreadId, threadId, threadName, pausedDetails, pc, handlers,
                 activated, disposed, targetUrl, missed>>

\* The Runtime domain of Thread t's target reports that its contexts were cleared.
executionContextsCleared(t) ==
  /\ "Runtime" \in activated[t]
  /\ IF Handled(t, "executionContextsCleared")
     THEN onExecutionContextsCleared(t)
     ELSE Unhandled(t, "executionContextsCleared")

\* The Debugger domain reports a pause.
paused(t, event) ==
  /\ "Debugger" \in activated[t]
  /\ IF Handled(t, "paused") THEN onPaused(t, event) ELSE Unhandled(t, "paused")

\* The Debugger domain reports that execution resumed.
resumed(t) ==
  /\ "Debugger" \in activated[t]
  /\ IF Handled(t, "resumed") THEN onResumed(t) ELSE Unhandled(t, "resumed")

\* The Debugger domain reports a parsed script.
scriptParsed(t, event) ==
  /\ "Debugger" \in activated[t]
  /\ Len(sources) < MaxSources
  /\ IF Handled(t, "scriptParsed") THEN onScriptParsed(t, event) ELSE Unhandled(t, "scriptParsed")

\* The content getter of Source s, called by whoever asks for the content.
contentGetter(s) ==
  /\ out' = <<Call("command", sources[s].thread, {s}, "Debugger.getScriptSource:" \o sources[s].scriptId,
                   threadName[sources[s].thread], pausedDetails[sources[s].thread])>>
  /\ lastOp' = Op("contentGetter", sources[s].thread, "", NoEvent)
  /\ UNCHANGED <<lastThreadId, threadId, threadName, pausedDetails, scripts, pc, handlers,
                 activated, disposed, targetUrl, sources, registry, added, missed>>

\* The document of the Thread's target changes its URL.
targetUrlChanged(t, url) ==
  /\ url # targetUrl[t]
  /\ targetUrl' = [targetUrl EXCEPT ![t] = url]
  /\ out' = <<>>
  /\ lastOp' = Op("targetUrlChanged", t, "", NoEvent)
  /\ UNCHANGED <<lastThreadId, threadId, threadName, pausedDetails, scripts, pc, handlers,
                 activated, disposed, sources, registry, added, missed>>

(***************************************************************************)
(* Specifications.                                                          *)
(***************************************************************************)
\* One Thread: every method, every event, in every order.
Next ==
  \/ \E t \in Threads : initialize(t)
  \/ \E t \in Threads : initializeRuntimeEnabled(t)
  \/ \E t \in Threads : initializeDebuggerEnabled(t)
  \/ \E t \in Threads : initializeFailed(t)
  \/ \E t \in Threads : resume(t)
  \/ \E t \in Threads : dispose(t)
  \/ \E t \in Threads, name \in ThreadNames : setThreadName(t, name)
  \/ \E t \in Threads : executionContextsCleared(t)
  \/ \E t \in Threads, reason \in PauseReasons : paused(t, PausedEvent(reason))
  \/ \E t \in Threads : resumed(t)
  \/ \E t \in Threads, event \in ScriptParsedEvents : scriptParsed(t, event)
  \/ \E s \in 1..Len(sources) : contentGetter(s)
  \/ \E t \in Threads, url \in DocumentUrls : targetUrlChanged(t, url)

Spec == Init /\ [][Next]_vars

\* Several Threads, each with its own Target, sharing the SourceContainer and the
\* id counter: construction interleaved with initialization, scripts and resets.
NextThreads ==
  \/ \E url \in {EmptyString} : constructor(url)
  \/ \E t \in Threads : initialize(t)
  \/ \E t \in Threads : initializeRuntimeEnabled(t)
  \/ \E t \in Threads : initializeDebuggerEnabled(t)
  \/ \E t \in Threads : dispose(t)
  \/ \E t \in Threads : executionContextsCleared(t)
  \/ \E t \in Threads, event \in PlainScriptParsedEvents : scriptParsed(t, event)

SpecThreads == InitThreads /\ [][NextThreads]_vars

(***************************************************************************)
(* Properties.                                                              *)
(***************************************************************************)
\* The last step handled operation or event `op` on Thread t.
Did(op, t) == lastOp.op = op /\ lastOp.t = t

\* C1: a dispose() leaves scripts() empty and makes one removeSources call, which
\* receives exactly the Source handles the Thread passed to addSource since its
\* previous reset, also when a script id was reported more than once.
C1_DisposeRemovesEverySourceAdded ==
  [][\A t \in Threads :
       Did("dispose", t)' =>
         /\ scripts'[t] = EmptyMap
         /\ Len(out') = 1
         /\ out'[1].op = "removeSources"
         /\ out'[1].srcs = added[t]]_vars

\* C2: after dispose() or a 'contexts cleared' event, pausedState() is absent.
C2_ResetClearsPausedState ==
  \A t \in Threads :
    (Did("dispose", t) \/ Did("executionContextsCleared", t)) => Absent(pausedDetails[t])

\* C3: pausedState() is absent until the first 'paused' event, equals the payload of
\* the latest 'paused' event right after it, and is absent right after a 'resumed' event.
C3_PausedStateFollowsEvents ==
  /\ \A t \in Threads : Absent(pausedDetails[t])
  /\ [][\A t \in Threads :
          /\ Did("paused", t)' => pausedDetails'[t] = PausedEvent(lastOp'.val)
          /\ Did("resumed", t)' => Absent(pausedDetails'[t])
          /\ (Absent(pausedDetails[t]) /\ ~Absent(pausedDetails'[t])) => Did("paused", t)']_vars

C3_Witness ==
  /\ pc[1] = "done"
  /\ Did("paused", 1)
  /\ pausedDetails[1] = PausedEvent("step")

\* C4: initialize() subscribes the listener of 'contexts cleared' before it issues
\* Runtime.enable, and those of 'paused', 'resumed' and 'script parsed' before it
\* issues Debugger.enable, so no event of a domain whose activation was issued is
\* emitted with no listener registered for it.
C4_SubscribeBeforeActivate ==
  /\ ~missed
  /\ \A t \in Threads :
       /\ "Runtime" \in activated[t] => "executionContextsCleared" \in handlers[t]
       /\ "Debugger" \in activated[t] => {"paused", "resumed", "scriptParsed"} \subseteq handlers[t]
  /\ \A i \in Calls("command"), j \in Calls("on") :
       out[i].val \in {"Runtime.enable", "Debugger.enable"} => j < i

C4_Witness ==
  /\ pc[1] = "awaitDebugger"
  /\ ~disposed[1]
  /\ Did("scriptParsed", 1)
  /\ scripts[1] # EmptyMap

\* C5: a reset is one uninterrupted step: a step that takes a script out of the
\* local map of a Thread empties the map and hands all the Sources the map held
\* to the registry in one removeSources call, and nothing is removed otherwise.
C5_ResetIsOneStep ==
  [][\A t \in Threads :
       LET snapshot == Values(scripts[t])
           removals == {i \in 1..Len(out') : out'[i].op = "removeSources" /\ out'[i].t = t}
           whole == /\ scripts'[t] = EmptyMap
                    /\ Cardinality(removals) = 1
                    /\ \A i \in removals : out'[i].srcs = snapshot
                    /\ registry' = registry \ snapshot
       IN /\ ~(DOMAIN scripts[t] \subseteq DOMAIN scripts'[t]) => whole
          /\ removals # {} => whole
          /\ (\E s \in registry \ registry' : sources[s].thread = t) => whole]_vars

C5_Witness ==
  /\ Did("executionContextsCleared", 1)
  /\ scripts[1] = EmptyMap
  /\ Len(out) = 1
  /\ Cardinality(out[1].srcs) = 2
  /\ registry = {}

C7_ResumeOnlyIssuesCommand ==
  [][\A t \in Threads :
       /\ Did("resume", t)' =>
            /\ Len(out') = 1
            /\ out'[1].op = "command"
            /\ out'[1].val = "Debugger.resume"
            /\ out'[1].t = t
            /\ UNCHANGED <<lastThreadId, threadId, threadName, pausedDetails, scripts,
                           sources, registry>>
       /\ (~Absent(pausedDetails[t]) /\ Absent(pausedDetails'[t])) => Did("resumed", t)'
       /\ (\E i \in 1..Len(out') : out'[i].op = "emit" /\ out'[i].val = "ThreadResumed" /\ out'[i].t = t)
            => Did("resumed", t)']_vars

C7_Witness ==
  /\ Did("resume", 1)
  /\ ~Absent(pausedDetails[1])
  /\ scripts[1] # EmptyMap

\* C8: the ids of the Threads constructed are strictly increasing in construction
\* order, hence pairwise distinct, and the id of a Thread never changes.
C8_ThreadIdsIncrease ==
  [][/\ \A i, j \in 1..Len(threadId') : i < j => threadId'[i] < threadId'[j]
     /\ \A t \in Threads : threadId'[t] = threadId[t]]_vars

C8_Witness ==
  /\ Len(threadId) >= 2
  /\ lastOp.op = "constructor"
  /\ scripts[1] # EmptyMap

\* C9: setThreadName(n) makes name() return n and emits exactly one
\* ThreadNameChanged notification, which carries the Thread and is emitted when
\* the name is already n; the paused state and the scripts are unchanged.
C9_SetThreadNameNotifiesOnce ==
  [][\A t \in Threads :
       Did("setThreadName", t)' =>
         /\ threadName'[t] = lastOp'.val
         /\ Len(out') = 1
         /\ out'[1].op = "emit"
         /\ out'[1].val = "ThreadNameChanged"
         /\ out'[1].t = t
         /\ out'[1].name = lastOp'.val
         /\ UNCHANGED <<lastThreadId, threadId, pausedDetails, scripts, sources, registry>>]_vars

C9_Witness ==
  /\ Did("setThreadName", 1)
  /\ threadName[1] = "main"
  /\ ~Absent(pausedDetails[1])
  /\ scripts[1] # EmptyMap

\* C10: handling a script-parsed event calls attachSourceMap if and only if the
\* event has a non-empty source-map URL, the script URL resolves against the
\* document URL and the source-map URL resolves against the result; the one call
\* carries the Source just registered and the URL of the second step.  The Source
\* is registered in the local map and in the registry in every case.
C10_SourceMapAttachedIffResolved ==
  \A t \in Threads :
    Did("scriptParsed", t) =>
      LET event == lastOp.event
          source == Len(sources)
          first == completeUrl(targetUrl[t], event.url)
          second == completeUrl(first, event.sourceMapURL)
          resolves == Text(event.sourceMapURL) # "" /\ first.def /\ second.def
          attaches == Calls("attachSourceMap")
      IN /\ (attaches # {}) <=> resolves
         /\ Cardinality(attaches) <= 1
         /\ \A i \in attaches :
              out[i].srcs = {source} /\ out[i].val = Text(second) /\ out[i].t = t
         /\ \E i \in Calls("addSource") : out[i].srcs = {source} /\ out[i].t = t
         /\ source \in registry
         /\ event.scriptId \in DOMAIN scripts[t]
         /\ scripts[t][event.scriptId] = source

C10_Witness ==
  /\ Did("scriptParsed", 1)
  /\ Text(lastOp.event.url) = "/app.js"
  /\ Text(targetUrl[1]) = "https://x/index.html"
  /\ \E i \in Calls("attachSourceMap") : out[i].val = "https://x/app.js.map"

\* C11: a script-parsed event registers a Source whose identifier is the URL of
\* the event when that is non-empty and "VM" followed by the script id otherwise,
\* and the local map holds that Source under the script id of the event.
C11_SourceIdentifier ==
  \A t \in Threads :
    Did("scriptParsed", t) =>
      LET event == lastOp.event
          source == Len(sources)
          identifier == IF Text(event.url) # "" THEN Text(event.url) ELSE "VM" \o event.scriptId
      IN /\ sources[source].url = identifier
         /\ sources[source].scriptId = event.scriptId
         /\ \E i \in Calls("addSource") : out[i].srcs = {source} /\ out[i].val = identifier
         /\ event.scriptId \in DOMAIN scripts[t]
         /\ scripts[t][event.scriptId] = source

C11_Witness ==
  /\ Did("scriptParsed", 1)
  /\ Text(lastOp.event.url) = ""
  /\ lastOp.event.scriptId = "7"
  /\ sources[scripts[1]["7"]].url = "VM7"

\* The command that fetches the source of script `id`.
GetScriptSource(id) == "Debugger.getScriptSource:" \o id

\* C12: handling a script-parsed event issues no fetch-script-source command; such
\* a command is issued only by the content getter of a Source, and carries the
\* script id of the event that created that Source.
C12_ContentFetchedLazily ==
  [][LET fetches == {i \in 1..Len(out') :
                       /\ out'[i].op = "command"
                       /\ out'[i].val \in {GetScriptSource(id) : id \in ScriptIds}}
     IN /\ fetches # {} =>
             /\ lastOp'.op = "contentGetter"
             /\ Len(out') = 1
             /\ \E s \in 1..Len(sources) :
                  /\ out'[1].srcs = {s}
                  /\ out'[1].val = GetScriptSource(sources[s].scriptId)
                  /\ out'[1].t = sources[s].thread
        /\ \A t \in Threads :
             Did("scriptParsed", t)' =>
               /\ fetches = {}
               /\ sources'[Len(sources')].scriptId = lastOp'.event.scriptId
               /\ sources'[Len(sources')].thread = t
               /\ SubSeq(sources', 1, Len(sources)) = sources]_vars

C12_Witness ==
  /\ lastOp.op = "contentGetter"
  /\ Len(sources) = 2
  /\ sources[1].scriptId = "7"
  /\ sources[2].scriptId = "8"
  /\ out[1].srcs = {1}
  /\ out[1].val = GetScriptSource("7")

\* C13: when an activation command fails, initialize() fails with it and issues
\* nothing more: each activation command is issued at most once, and after a
\* failure of the first activation the second is never issued.
C13_InitializeFailsWithoutRetry ==
  [][\A t \in Threads :
       LET issued(cmd) == {i \in 1..Len(out') :
                             out'[i].op = "command" /\ out'[i].t = t /\ out'[i].val = cmd}
       IN /\ Did("initializeFailed", t)' =>
               /\ lastOp'.val = pc[t]
               /\ pc'[t] = "failed"
               /\ Len(out') = 0
               /\ activated'[t] = activated[t]
          /\ pc[t] = "failed" =>
               /\ pc'[t] = "failed"
               /\ activated'[t] = activated[t]
               /\ issued("Runtime.enable") = {}
               /\ issued("Debugger.enable") = {}
          /\ issued("Runtime.enable") # {} =>
               /\ Cardinality(issued("Runtime.enable")) = 1
               /\ "Runtime" \notin activated[t]
          /\ issued("Debugger.enable") # {} =>
               /\ Cardinality(issued("Debugger.enable")) = 1
               /\ "Debugger" \notin activated[t]
               /\ pc[t] = "awaitRuntime"]_vars

C13_Witness ==
  /\ pc[1] = "failed"
  /\ activated[1] = {"Runtime"}
  /\ Did("executionContextsCleared", 1)

\* C14: when ThreadPaused is delivered, pausedState() already answers the payload
\* of the 'paused' event that caused it; when ThreadResumed is delivered,
\* pausedState() is already absent.
C14_StateUpdatedBeforeNotification ==
  \A i \in Calls("emit") :
    /\ out[i].val = "ThreadPaused" =>
         /\ lastOp.op = "paused"
         /\ out[i].t = lastOp.t
         /\ out[i].paused = PausedEvent(lastOp.val)
    /\ out[i].val = "ThreadResumed" =>
         /\ lastOp.op = "resumed"
         /\ out[i].t = lastOp.t
         /\ Absent(out[i].paused)

C14_Witness ==
  /\ Did("paused", 1)
  /\ Len(out) = 1
  /\ out[1].val = "ThreadPaused"
  /\ out[1].paused = PausedEvent("breakpoint")
  /\ threadName[1] = "main"

\* C15: each 'paused' event handled makes exactly one ThreadPaused notification
\* and each 'resumed' event exactly one ThreadResumed, carrying the Thread;
\* construction, script-parsed events, resets, dispose() and resume() make none.
C15_OneNotificationPerEvent ==
  /\ \A t \in Threads :
       /\ Did("paused", t) =>
            Len(out) = 1 /\ out[1].op = "emit" /\ out[1].val = "ThreadPaused" /\ out[1].t = t
       /\ Did("resumed", t) =>
            Len(out) = 1 /\ out[1].op = "emit" /\ out[1].val = "ThreadResumed" /\ out[1].t = t
  /\ \A i \in Calls("emit") :
       /\ out[i].val = "ThreadPaused" => lastOp.op = "paused"
       /\ out[i].val = "ThreadResumed" => lastOp.op = "resumed"
  /\ lastOp.op \in {"constructor", "scriptParsed", "executionContextsCleared", "dispose", "resume"}
       => Calls("emit") = {}

C15_Witness ==
  /\ Did("resumed", 1)
  /\ pc[1] = "done"
  /\ Len(out) = 1
  /\ out[1].val = "ThreadResumed"
  /\ scripts[1] # EmptyMap

\* C16: a 'contexts cleared' event empties the local map and removes its Sources
\* from the registry, as dispose() does, and the Thread goes on: the scripts parsed
\* afterwards are registered, so that scripts() holds exactly the script ids
\* reported since the most recent reset, each with the Source created last for it.
C16_ContextsClearedResetsAndSurvives ==
  [][\A t \in Threads :
       /\ (Did("executionContextsCleared", t)' \/ Did("dispose", t)') =>
            /\ scripts'[t] = EmptyMap
            /\ registry' = registry \ Values(scripts[t])
            /\ Len(out') = 1
            /\ out'[1].op = "removeSources"
            /\ out'[1].srcs = Values(scripts[t])
       /\ Did("executionContextsCleared", t)' =>
            /\ ~disposed'[t]
            /\ handlers'[t] = handlers[t]
            /\ activated'[t] = activated[t]
       /\ DOMAIN scripts'[t] = {sources'[s].scriptId : s \in added'[t]}
       /\ \A id \in DOMAIN scripts'[t] :
            /\ scripts'[t][id] \in added'[t]
            /\ \A s \in added'[t] : sources'[s].scriptId = id => s <= scripts'[t][id]]_vars

C16_Witness ==
  /\ Did("scriptParsed", 1)
  /\ ~disposed[1]
  /\ Len(sources) = 2
  /\ added[1] = {2}
  /\ registry = {2}
  /\ DOMAIN scripts[1] = {lastOp.event.scriptId}

\* C17: a second dispose(), or a reset with no script registered since the last
\* reset, changes nothing and its removeSources call carries no Source.  No Source
\* is handed to removeSources twice: every Source handed over is in the registry
\* before the call and out of it afterwards, and addSource only ever receives a
\* Source that was just created.
C17_TeardownIdempotent ==
  [][\A t \in Threads :
       LET removals == {i \in 1..Len(out') : out'[i].op = "removeSources" /\ out'[i].t = t}
           additions == {i \in 1..Len(out') : out'[i].op = "addSource" /\ out'[i].t = t}
           nothing == /\ Cardinality(removals) = 1
                      /\ \A i \in removals : out'[i].srcs = {}
                      /\ UNCHANGED <<lastThreadId, threadId, threadName, pausedDetails, scripts,
                                     pc, handlers, activated, targetUrl, sources, registry, added>>
       IN /\ (Did("dispose", t)' /\ disposed[t]) => (nothing /\ disposed' = disposed)
          /\ ((Did("dispose", t)' \/ Did("executionContextsCleared", t)') /\ added[t] = {}) => nothing
          /\ \A i \in removals : out'[i].srcs \subseteq registry /\ out'[i].srcs \cap registry' = {}
          /\ \A i \in additions : out'[i].srcs \cap (1..Len(sources)) = {}]_vars

C17_Witness ==
  /\ Did("dispose", 1)
  /\ disposed[1]
  /\ Len(sources) = 2
  /\ registry = {}
  /\ out[1].srcs = {}
  /\ threadName[1] = "main"

\* C18: between handlers, every Source held in the scripts() map of a Thread was
\* added to the shared registry by that Thread and has not been removed since.
C18_LocalMapWithinRegistry ==
  \A t \in Threads :
    \A s \in Values(scripts[t]) :
      /\ s \in registry
      /\ s \in added[t]
      /\ sources[s].thread = t

C18_Witness ==
  /\ Len(threadId) = 2
  /\ Did("executionContextsCleared", 1)
  /\ out[1].srcs = {1}
  /\ scripts[2] # EmptyMap
  /\ registry = {2}

\* C19: with several Threads on one registry, a reset or dispose() of a Thread
\* passes to removeSources only Sources which that Thread added, and leaves the
\* scripts() of every other Thread and their Sources in the registry as they were.
C19_ResetTouchesOwnSourcesOnly ==
  [][\A t \in Threads :
       (Did("dispose", t)' \/ Did("executionContextsCleared", t)') =>
         /\ \A i \in 1..Len(out') :
              out'[i].op = "removeSources" => \A s \in out'[i].srcs : sources[s].thread = t
         /\ \A u \in Threads \ {t} : scripts'[u] = scripts[u]
         /\ {s \in registry : sources[s].thread # t} = {s \in registry' : sources[s].thread # t}]_vars

C19_Witness ==
  /\ Len(threadId) = 2
  /\ Did("dispose", 2)
  /\ out[1].srcs = {2}
  /\ scripts[1] # EmptyMap
  /\ registry = {1}

\* C20: the source-map URL of a script is resolved once, in the step that handles
\* its script-parsed event, against the document URL of the target at that moment;
\* a later change of the document URL makes no call on the registry and changes
\* neither a Source nor the state of the Thread.
C20_SourceMapResolvedOnce ==
  [][LET attaches == {i \in 1..Len(out') : out'[i].op = "attachSourceMap"} IN
     /\ attaches # {} => lastOp'.op = "scriptParsed"
     /\ \A t \in Threads :
          /\ Did("targetUrlChanged", t)' =>
               /\ Len(out') = 0
               /\ UNCHANGED <<lastThreadId, threadId, threadName, pausedDetails, scripts, pc,
                              handlers, activated, disposed, sources, registry, added>>
          /\ Did("scriptParsed", t)' =>
               LET event == lastOp'.event
                   first == completeUrl(targetUrl[t], event.url)
                   second == completeUrl(first, event.sourceMapURL)
                   resolves == Text(event.sourceMapURL) # "" /\ first.def /\ second.def
               IN /\ targetUrl'[t] = targetUrl[t]
                  /\ {out'[i].val : i \in attaches} = IF resolves THEN {Text(second)} ELSE {}
                  /\ Cardinality(attaches) <= 1
                  /\ \A i \in attaches : out'[i].srcs = {Len(sources) + 1}]_vars

C20_Witness ==
  /\ Did("targetUrlChanged", 1)
  /\ Text(targetUrl[1]) = ""
  /\ \E s \in registry : sources[s].url = "/app.js" /\ s \in Values(scripts[1])

====
